---- MODULE Spec2Model ----
(***************************************************************************)
(* Model of generate_oil_analysis.py: the price-history loader, the 3-2-1   *)
(* crack calculator, the percentile ranker, the scenario builder and the    *)
(* reporters' effects on the filesystem.                                    *)
(*                                                                          *)
(* Numbers.  A float is modelled as an exact rational <<n, d>> with d > 0   *)
(* in lowest terms; the missing value (NaN) is <<0, 0>>.  Prices are in     *)
(* hundredths (crude 80.00 USD/bbl is 8000, rbob 2.40 USD/gal is 240), so   *)
(* the product moves of 0.05 and the spread are exact.  Dates are day       *)
(* numbers 1, 2, ...; the absent reference date (None) is 0.                *)
(***************************************************************************)
EXTENDS Integers, Sequences, FiniteSets, TLC

VARIABLES pc, args, ret, fs, exc

vars == <<pc, args, ret, fs, exc>>

(***************************************************************************)
(* Bounds of the model.                                                     *)
(***************************************************************************)
MaxRows == 3        \* rows of a small csv
MaxTable == 2       \* rows of a table of prices (calculator, reporters)
MaxDate == 2        \* dates of a small table are 1..MaxDate
MaxGapRows == 11    \* rows of a long history (gap filling)
MaxSeed == 2        \* price patterns of a long history
MaxSeries == 4      \* length of a percentile series
MaxBase == 3        \* base prices of the scenario builder
MaxCalls == 2       \* calls of write_market_note on one table

(***************************************************************************)
(* Program constants.                                                       *)
(***************************************************************************)
InterpLimit == 7
GallonsPerBarrel == 42
None == 0
Required == {"date", "crude", "rbob", "ulsd"}

(***************************************************************************)
(* The filesystem: the directories that exist besides the working           *)
(* directory, and the content of every file.  A path is the sequence of     *)
(* its components.                                                          *)
(***************************************************************************)
EmptyFs == [dirs |-> {}, files |-> [p \in {} |-> <<>>]]

\* Path.parent
Parent(path) == SubSeq(path, 1, Len(path) - 1)

\* Path.parent.mkdir(parents=True, exist_ok=True)
MkdirParents(f, path) ==
  [f EXCEPT !.dirs = @ \cup {SubSeq(path, 1, k) : k \in 1..(Len(path) - 1)}]

\* the file at path holds content afterwards
WriteFile(f, path, content) ==
  [f EXCEPT !.files = (path :> content) @@ @]

\* the directory a new file goes to exists
ParentExists(f, path) == Len(path) = 1 \/ Parent(path) \in f.dirs

(***************************************************************************)
(* Exact arithmetic with a missing value.                                   *)
(***************************************************************************)
NaN == <<0, 0>>

IsNaN(x) == x[2] = 0

Abs(n) == IF n < 0 THEN -n ELSE n

RECURSIVE GCD(_, _)
GCD(a, b) == IF b = 0 THEN a ELSE GCD(b, a % b)

Norm(n, d) == LET g == GCD(Abs(n), d) IN <<n \div g, d \div g>>

Num(v) == <<v, 1>>

Add(x, y) ==
  IF IsNaN(x) \/ IsNaN(y) THEN NaN
  ELSE Norm(x[1] * y[2] + y[1] * x[2], x[2] * y[2])

Times(k, x) == IF IsNaN(x) THEN NaN ELSE Norm(k * x[1], x[2])

Sub(x, y) == Add(x, Times(-1, y))

Over(x, k) == IF IsNaN(x) THEN NaN ELSE Norm(x[1], x[2] * k)

\* x <= y as numpy compares floats: false when either side is NaN
Leq(x, y) == ~IsNaN(x) /\ ~IsNaN(y) /\ x[1] * y[2] <= y[1] * x[2]

Less(x, y) == ~IsNaN(x) /\ ~IsNaN(y) /\ x[1] * y[2] < y[1] * x[2]

(***************************************************************************)
(* Series operations of the tabular library, as load_price_history uses     *)
(* them.  A series is a sequence of numbers.                                *)
(***************************************************************************)
\* index of the last valid value before i, 0 when there is none
PrevValid(s, i) ==
  LET V == {j \in 1..(i - 1) : ~IsNaN(s[j])}
  IN IF V = {} THEN 0 ELSE CHOOSE j \in V : \A k \in V : k <= j

\* index of the first valid value after i, 0 when there is none
NextValid(s, i) ==
  LET V == {j \in (i + 1)..Len(s) : ~IsNaN(s[j])}
  IN IF V = {} THEN 0 ELSE CHOOSE j \in V : \A k \in V : j <= k

\* pd.to_numeric(..., errors="coerce"): a cell <<n, 1>> is numeric text, an
\* empty cell is <<0, 0>> and non-numeric text is <<n, -1>>
ToNumericCell(c) == IF c[2] >= 1 THEN c ELSE NaN

ToNumeric(s) == [i \in 1..Len(s) |-> ToNumericCell(s[i])]

\* Interpolate without the limit: every run after a valid value is filled
Interpolate_Unlimited(s, lim) ==
  [i \in 1..Len(s) |->
     IF ~IsNaN(s[i]) THEN s[i]
     ELSE LET p == PrevValid(s, i)
              q == NextValid(s, i)
          IN IF p = 0 THEN NaN
             ELSE IF q = 0 THEN s[p]
             ELSE Add(s[p], Times(i - p, Over(Sub(s[q], s[p]), q - p)))]

\* Interpolate with the slope over the number of missing values instead of
\* the distance of the valid neighbours
Interpolate_GapLength(s, lim) ==
  [i \in 1..Len(s) |->
     IF ~IsNaN(s[i]) THEN s[i]
     ELSE LET p == PrevValid(s, i)
              q == NextValid(s, i)
          IN IF p = 0 \/ i - p > lim THEN NaN
             ELSE IF q = 0 THEN s[p]
             ELSE Add(s[p], Times(i - p, Over(Sub(s[q], s[p]), q - p - 1)))]

\* Series.interpolate(limit=lim): method "linear" on the row positions,
\* direction forward.  Leading missing values stay missing; of each later
\* run of missing values only the first lim are filled, from the line
\* through the two valid neighbours, or with the last valid value when no
\* valid value follows.
Interpolate(s, lim) ==
  [i \in 1..Len(s) |->
     IF ~IsNaN(s[i]) THEN s[i]
     ELSE LET p == PrevValid(s, i)
              q == NextValid(s, i)
          IN IF p = 0 \/ i - p > lim THEN NaN
             ELSE IF q = 0 THEN s[p]
             ELSE Add(s[p], Times(i - p, Over(Sub(s[q], s[p]), q - p)))]

\* Series.ffill()
FFill(s) ==
  [i \in 1..Len(s) |->
     IF ~IsNaN(s[i]) THEN s[i]
     ELSE LET p == PrevValid(s, i) IN IF p = 0 THEN NaN ELSE s[p]]

\* BFill taking the last valid value of the series, not the next one
BFill_LastValid(s) ==
  [i \in 1..Len(s) |->
     IF ~IsNaN(s[i]) THEN s[i]
     ELSE LET q == PrevValid(s, Len(s) + 1) IN IF q < i THEN NaN ELSE s[q]]

\* Series.bfill()
BFill(s) ==
  [i \in 1..Len(s) |->
     IF ~IsNaN(s[i]) THEN s[i]
     ELSE LET q == NextValid(s, i) IN IF q = 0 THEN NaN ELSE s[q]]

\* FillColumn without the final backfill
FillColumn_NoBackfill(s) == FFill(Interpolate(ToNumeric(s), InterpLimit))

\* lines 46-53 for one price column
FillColumn(s) == BFill(FFill(Interpolate(ToNumeric(s), InterpLimit)))

(***************************************************************************)
(* Tables.  A table is a sequence of rows; a row is a record with the       *)
(* fields date, crude, rbob, ulsd (and crack once computed).                *)
(***************************************************************************)
Column(t, c) == [i \in 1..Len(t) |-> t[i][c]]

\* insert row r into the date-sorted table t after every row whose date is
\* not later (the sort keeps rows of equal date in their input order)
RECURSIVE InsertByDate(_, _)
InsertByDate(t, r) ==
  IF t = <<>> THEN <<r>>
  ELSE IF t[Len(t)].date <= r.date THEN Append(t, r)
  ELSE Append(InsertByDate(SubSeq(t, 1, Len(t) - 1), r), t[Len(t)])

\* df.sort_values("date").reset_index(drop=True)
RECURSIVE SortByDate(_)
SortByDate(t) ==
  IF t = <<>> THEN <<>>
  ELSE InsertByDate(SortByDate(SubSeq(t, 1, Len(t) - 1)), t[Len(t)])

\* df["date"].max(); None for an empty table
MaxDateOf(t) ==
  IF t = <<>> THEN None
  ELSE CHOOSE d \in {t[i].date : i \in 1..Len(t)} :
         \A i \in 1..Len(t) : t[i].date <= d

\* lines 43-53: sort, coerce and fill the three price columns
CleanPrices(csv) ==
  LET t == SortByDate(csv)
      c == FillColumn(Column(t, "crude"))
      r == FillColumn(Column(t, "rbob"))
      u == FillColumn(Column(t, "ulsd"))
  IN [i \in 1..Len(t) |->
        [date |-> t[i].date, crude |-> c[i], rbob |-> r[i], ulsd |-> u[i]]]

\* ExtendToToday appending also when the reference date is the latest date
ExtendToToday_Inclusive(df, t) ==
  IF t # None /\ df # <<>> /\ MaxDateOf(df) <= t
  THEN Append(df, [df[Len(df)] EXCEPT !.date = t])
  ELSE df

\* lines 55-62: append a copy of the last row dated at the reference date
ExtendToToday(df, t) ==
  IF t # None /\ df # <<>> /\ MaxDateOf(df) < t
  THEN Append(df, [df[Len(df)] EXCEPT !.date = t])
  ELSE df

load_price_history(csv, t) == ExtendToToday(CleanPrices(csv), t)

(***************************************************************************)
(* load_price_history as an operation.  args holds the arguments of the     *)
(* call, ret the returned table, pc whether the call is pending, returned   *)
(* or raised, and fs the paths that exist on the filesystem.                *)
(***************************************************************************)
LoadPriceHistory ==
  /\ pc = "call"
  /\ args.op = "load_price_history"
  /\ IF ~(Required \subseteq args.columns)
     THEN /\ pc' = "raised"
          /\ exc' = "ValueError"
          /\ ret' = ret
     ELSE /\ pc' = "returned"
          /\ exc' = exc
          /\ ret' = load_price_history(args.csv, args.today)
  /\ UNCHANGED <<args, fs>>

(***************************************************************************)
(* Input tables.  The cells of one column are arbitrary; the other two      *)
(* price columns are that column reversed and a column without gaps, and    *)
(* the three are assigned to crude, rbob, ulsd in each rotation.            *)
(***************************************************************************)
Reverse(s) == [i \in 1..Len(s) |-> s[Len(s) + 1 - i]]

Flat(n) == [i \in 1..n |-> Num(10 * i)]

Rotations == 1..3

MakeTable(dates, p, rot) ==
  LET cols == <<p, Reverse(p), Flat(Len(p))>>
  IN [i \in 1..Len(p) |->
        [date  |-> dates[i],
         crude |-> cols[((rot - 1) % 3) + 1][i],
         rbob  |-> cols[(rot % 3) + 1][i],
         ulsd  |-> cols[((rot + 1) % 3) + 1][i]]]

\* cells of a small csv: empty, non-numeric text, two prices
Cells == {<<0, 0>>, <<0, -1>>, Num(10), Num(20)}

InitLoad ==
  /\ pc = "call"
  /\ ret = <<>>
  /\ fs = EmptyFs
  /\ exc = "none"
  /\ \E n \in 0..MaxRows :
       \E dates \in [1..n -> 1..MaxDate], p \in [1..n -> Cells],
          rot \in Rotations, t \in 0..(MaxDate + 1) :
         \/ args = [op |-> "load_price_history", columns |-> Required,
                    csv |-> MakeTable(dates, p, rot), today |-> t]
         \/ /\ n = 0
            /\ \E c \in Required :
                 args = [op |-> "load_price_history",
                         columns |-> Required \ {c},
                         csv |-> <<>>, today |-> t]

\* a long history: one row per day, written in ascending or descending
\* order; the pattern column is valid at the rows in mask, its k-th valid
\* cell holding PriceAt(seed, k)
PriceAt(seed, k) == Num(10 * ((((k - 1) * (1 + (seed - 1) * k)) % 3) + 1))

InitGap ==
  /\ pc = "call"
  /\ ret = <<>>
  /\ fs = EmptyFs
  /\ exc = "none"
  /\ \E n \in 1..MaxGapRows :
       \E mask \in SUBSET (1..n), seed \in 1..MaxSeed,
          rot \in Rotations, desc \in BOOLEAN :
         LET asc == [i \in 1..n |->
                       IF i \in mask
                       THEN PriceAt(seed, Cardinality({j \in mask : j <= i}))
                       ELSE NaN]
             tbl == MakeTable([i \in 1..n |-> i], asc, rot)
         IN args = [op |-> "load_price_history", columns |-> Required,
                    csv |-> IF desc THEN Reverse(tbl) ELSE tbl,
                    today |-> None]

NextLoad == LoadPriceHistory

SpecLoad == InitLoad /\ [][NextLoad]_vars

SpecGap == InitGap /\ [][NextLoad]_vars

(***************************************************************************)
(* Properties of load_price_history.                                        *)
(***************************************************************************)
PriceColSet == {"crude", "rbob", "ulsd"}

Returned == pc = "returned"

\* a csv cell that holds a number
IsNumberCell(c) == c[2] >= 1

\* the i-th row of the input by date, when all input dates differ
InputRowByDate(i) ==
  LET csv == args.csv
  IN csv[CHOOSE j \in 1..Len(csv) :
           Cardinality({k \in 1..Len(csv) : csv[k].date < csv[j].date}) = i - 1]

InputCol(c) == [i \in 1..Len(args.csv) |-> InputRowByDate(i)[c]]

\* the interior gaps of a series: pairs of valid positions with only
\* missing values, and at least one, between them
Gaps(s) ==
  {g \in (1..Len(s)) \X (1..Len(s)) :
     /\ g[1] + 1 < g[2]
     /\ IsNumberCell(s[g[1]])
     /\ IsNumberCell(s[g[2]])
     /\ \A j \in (g[1] + 1)..(g[2] - 1) : ~IsNumberCell(s[j])}

\* v = a + k * (b - a) / m for integers a, b and the rational v
OnLine(v, a, b, k, m) ==
  /\ v[2] >= 1
  /\ m * (v[1] - a[1] * v[2]) = k * (b[1] - a[1]) * v[2]

\* C1: when every price column of the csv has a valid value, the returned
\* table is sorted non-decreasing by date, the appended reference-date row
\* included, and has no missing crude, rbob or ulsd.
C1_SortedNoMissing ==
  (/\ Returned
   /\ \A c \in PriceColSet :
        \E i \in 1..Len(args.csv) : IsNumberCell(args.csv[i][c]))
  => /\ \A i \in 1..(Len(ret) - 1) : ret[i].date <= ret[i + 1].date
     /\ \A i \in 1..Len(ret) : \A c \in PriceColSet : IsNumberCell(ret[i][c])

C1_Witness ==
  /\ Returned
  /\ Len(ret) = Len(args.csv) + 1
  /\ \A c \in PriceColSet :
       \E i \in 1..Len(args.csv) : IsNumberCell(args.csv[i][c])
  /\ \E i \in 1..Len(args.csv) : \E c \in PriceColSet :
       ~IsNumberCell(args.csv[i][c])
  /\ \E i \in 1..(Len(args.csv) - 1) : args.csv[i].date > args.csv[i + 1].date

\* C3: an interior gap of n <= 7 missing values between valid a and b is
\* filled linearly: its k-th position receives a + k * (b - a) / (n + 1).
C3_ShortGapLinear ==
  Returned =>
    \A c \in PriceColSet :
      LET s == InputCol(c)
      IN \A g \in Gaps(s) :
           LET n == g[2] - g[1] - 1
           IN n <= 7 =>
                \A k \in 1..n :
                  OnLine(ret[g[1] + k][c], s[g[1]], s[g[2]], k, n + 1)

\* a gap of 7 between different values, and the gap of 1 between 10 and
\* 20 filled with 15
C3_Witness ==
  /\ Returned
  /\ \E c \in PriceColSet :
       LET s == InputCol(c)
       IN /\ \E g \in Gaps(s) : g[2] - g[1] - 1 = 7 /\ s[g[1]] # s[g[2]]
          /\ \E g \in Gaps(s) :
               /\ g[2] - g[1] - 1 = 1
               /\ s[g[1]] = Num(10)
               /\ s[g[2]] = Num(20)
               /\ ret[g[1] + 1][c] = Num(15)

ValidAt(s) == {i \in 1..Len(s) : IsNumberCell(s[i])}

\* C4: a leading run of missing values is filled with the first valid
\* value after it, a trailing run with the last valid value before it,
\* whatever the length of the run.
C4_LeadingTrailingRuns ==
  Returned =>
    \A c \in PriceColSet :
      LET s == InputCol(c)
      IN \A f \in ValidAt(s) :
           /\ (\A j \in ValidAt(s) : f <= j) =>
                \A i \in 1..(f - 1) : ret[i][c] = s[f]
           /\ (\A j \in ValidAt(s) : j <= f) =>
                \A i \in (f + 1)..Len(s) : ret[i][c] = s[f]

\* a leading run longer than the interpolation limit before two different
\* valid values, and a trailing run longer than the limit after them
C4_Witness ==
  /\ Returned
  /\ \E c \in PriceColSet :
       LET s == InputCol(c)
       IN /\ ValidAt(s) = {Len(s) - 1, Len(s)}
          /\ Len(s) > InterpLimit + 2
          /\ s[Len(s) - 1] # s[Len(s)]
          /\ ret[1][c] = s[Len(s) - 1]
  /\ \E c \in PriceColSet :
       LET s == InputCol(c)
       IN /\ ValidAt(s) = {1, 2}
          /\ Len(s) > InterpLimit + 2
          /\ s[1] # s[2]
          /\ ret[Len(s)][c] = s[2]

\* the latest date of the csv
InputMaxDate ==
  CHOOSE d \in {args.csv[i].date : i \in 1..Len(args.csv)} :
    \A i \in 1..Len(args.csv) : args.csv[i].date <= d

\* C5: a reference date R later than the latest date D adds exactly one
\* row, the last, dated R and with the prices of the row before it; with
\* R <= D or no reference date the rows are those returned without R.
C5_ReferenceDateExtension ==
  (Returned /\ args.csv # <<>>) =>
    LET base == load_price_history(args.csv, None)
        m == Len(base)
    IN IF args.today # None /\ args.today > InputMaxDate
       THEN /\ Len(ret) = m + 1
            /\ SubSeq(ret, 1, m) = base
            /\ ret[m + 1].date = args.today
            /\ \A c \in PriceColSet : ret[m + 1][c] = ret[m][c]
       ELSE ret = base

C5_Witness ==
  /\ Returned
  /\ args.csv # <<>>
  /\ args.today > InputMaxDate
  /\ Len(ret) = Len(args.csv) + 1
  /\ Len(args.csv) >= 2
  /\ \E c \in PriceColSet :
       /\ ~IsNumberCell(args.csv[Len(args.csv)][c])
       /\ IsNumberCell(ret[Len(ret)][c])

C5_WitnessNoRow ==
  /\ Returned
  /\ args.csv # <<>>
  /\ args.today = InputMaxDate
  /\ Len(ret) = Len(args.csv)
  /\ Len(ret) >= 2

(***************************************************************************)
(* compute_crack.  A table given to it may lack required columns and may    *)
(* carry further ones (volume, or a crack column computed earlier).         *)
(***************************************************************************)
\* CrackOf with the barrel factor on the crude instead of the products
CrackOf_BarrelsOnCrude(crude, rbob, ulsd) ==
  Sub(Add(Times(2, rbob), Times(1, ulsd)),
      Times(3 * GallonsPerBarrel, crude))

\* line 77 for one row
CrackOf(crude, rbob, ulsd) ==
  Sub(Times(GallonsPerBarrel, Add(Times(2, rbob), Times(1, ulsd))),
      Times(3, crude))

\* line 77: df["crack"] = ..., replacing the column when it exists
WithCrack(prices) ==
  [i \in 1..Len(prices) |->
     ("crack" :> CrackOf(prices[i].crude, prices[i].rbob, prices[i].ulsd))
       @@ prices[i]]

ComputeCrack ==
  /\ pc = "call"
  /\ args.op = "compute_crack"
  /\ IF ~(Required \subseteq args.columns)
     THEN /\ pc' = "raised"
          /\ exc' = "ValueError"
          /\ ret' = ret
     ELSE /\ pc' = "returned"
          /\ exc' = exc
          /\ ret' = WithCrack(args.prices)
  /\ UNCHANGED <<args, fs>>

\* rows of a table of prices, in hundredths; volume and crack are kept
\* only in tables that have these columns
PriceRows ==
  [date : 1..MaxDate,
   crude : {NaN, Num(8000), Num(8100)},
   rbob : {NaN, Num(240)},
   ulsd : {Num(260), Num(265)},
   volume : {Num(1)},
   crack : {Num(0)}]

Project(row, cols) == [c \in cols |-> row[c]]

ColumnSets ==
  {Required, Required \cup {"crack"}, Required \cup {"volume"}}
    \cup {Required \ {c} : c \in Required}

InitCrack ==
  /\ pc = "call"
  /\ ret = <<>>
  /\ fs = EmptyFs
  /\ exc = "none"
  /\ \E n \in 0..MaxTable :
       \E t \in [1..n -> PriceRows], cols \in ColumnSets :
         args = [op |-> "compute_crack", columns |-> cols,
                 prices |-> [i \in 1..n |-> Project(t[i], cols)]]

NextCrack == ComputeCrack

SpecCrack == InitCrack /\ [][NextCrack]_vars

\* the crack v of a row of valid prices: v = (2 * rbob + ulsd) * 42 - 3 * crude
IsCrackOf(v, row) ==
  IF \E c \in PriceColSet : ~IsNumberCell(row[c])
  THEN v = NaN
  ELSE /\ v[2] >= 1
       /\ v[1] = ((2 * row.rbob[1] + row.ulsd[1]) * 42 - 3 * row.crude[1]) * v[2]

\* the row crude = 80, rbob = 2.40, ulsd = 2.60
IsExampleRow(row) ==
  row.crude = Num(8000) /\ row.rbob = Num(240) /\ row.ulsd = Num(260)

\* C6 as claimed: the returned table has the rows of the input in their
\* order, every original column unchanged, and crack = (2 * rbob + ulsd) *
\* 42 - 3 * crude, which is 79.2 for crude = 80, rbob = 2.40, ulsd = 2.60.
C6_CrackExample792 ==
  Returned =>
    /\ Len(ret) = Len(args.prices)
    /\ \A i \in 1..Len(ret) :
         /\ DOMAIN ret[i] = args.columns \cup {"crack"}
         /\ \A c \in args.columns : ret[i][c] = args.prices[i][c]
         /\ IsCrackOf(ret[i].crack, args.prices[i])
         /\ IsExampleRow(args.prices[i]) => ret[i].crack = Num(7920)

\* C6 as amended: the returned table has the rows of the input in their
\* order, every original column other than crack unchanged, and a crack
\* column with crack = (2 * rbob + ulsd) * 42 - 3 * crude, which is 70.8 for
\* crude = 80, rbob = 2.40, ulsd = 2.60; a crack column of the input is
\* replaced.
C6_CrackFormula ==
  Returned =>
    /\ Len(ret) = Len(args.prices)
    /\ \A i \in 1..Len(ret) :
         /\ DOMAIN ret[i] = args.columns \cup {"crack"}
         /\ \A c \in args.columns \ {"crack"} : ret[i][c] = args.prices[i][c]
         /\ IsCrackOf(ret[i].crack, args.prices[i])
         /\ IsExampleRow(args.prices[i]) => ret[i].crack = Num(7080)

C6_Witness ==
  /\ Returned
  /\ Len(ret) >= 2
  /\ "volume" \in args.columns
  /\ IsExampleRow(args.prices[1])
  /\ ret[1].crack = Num(7080)
  /\ ret[1].volume = Num(1)
  /\ ret[2].date < ret[1].date
  /\ ret[2].crack # ret[1].crack

(***************************************************************************)
(* compute_percentile                                                       *)
(***************************************************************************)
\* pd.Series(series).dropna()
DropNa(s) == SelectSeq(s, LAMBDA x : ~IsNaN(x))

\* compute_percentile counting the values strictly below the target
compute_percentile_Strict(series, value) ==
  LET arr == DropNa(series)
      cnt == Cardinality({i \in 1..Len(arr) : Less(arr[i], value)})
  IN IF Len(arr) = 0 THEN NaN
     ELSE Times(100, Over(Num(cnt), Len(arr)))

\* lines 86-91
compute_percentile(series, value) ==
  LET arr == DropNa(series)
      cnt == Cardinality({i \in 1..Len(arr) : Leq(arr[i], value)})
  IN IF Len(arr) = 0 THEN NaN
     ELSE Times(100, Over(Num(cnt), Len(arr)))

ComputePercentile ==
  /\ pc = "call"
  /\ args.op = "compute_percentile"
  /\ pc' = "returned"
  /\ ret' = compute_percentile(args.series, args.value)
  /\ UNCHANGED <<args, fs, exc>>

SeriesValues == {NaN, Num(10), Num(20), Num(30), Num(40)}

InitPercentile ==
  /\ pc = "call"
  /\ ret = NaN
  /\ fs = EmptyFs
  /\ exc = "none"
  /\ \E n \in 0..MaxSeries :
       \E s \in [1..n -> SeriesValues], v \in SeriesValues \cup {Num(25)} :
         args = [op |-> "compute_percentile", series |-> s, value |-> v]

NextPercentile == ComputePercentile

SpecPercentile == InitPercentile /\ [][NextPercentile]_vars

\* the positions of the non-missing values of the series of the call, and
\* of those not above the target
NonMissing == {i \in 1..Len(args.series) : args.series[i][2] # 0}

NotAbove ==
  {i \in NonMissing :
     /\ args.value[2] # 0
     /\ args.series[i][1] * args.value[2] <= args.value[1] * args.series[i][2]}

\* C7: the result is 100 * (non-missing values <= target) / (non-missing
\* values), so values equal to the target count, it lies in [0, 100], and
\* it is NaN, not an error, when the series has no non-missing value.
C7_Percentile ==
  Returned =>
    IF NonMissing = {} THEN ret = NaN
    ELSE /\ ret[2] >= 1
         /\ ret[1] * Cardinality(NonMissing) = 100 * Cardinality(NotAbove) * ret[2]
         /\ 0 <= ret[1]
         /\ ret[1] <= 100 * ret[2]

\* the series [10, 20, 30, 40] with target 30 gives 75
C7_Witness ==
  /\ Returned
  /\ args.series = <<Num(10), Num(20), Num(30), Num(40)>>
  /\ args.value = Num(30)
  /\ ret = Num(75)

(***************************************************************************)
(* build_scenario_table                                                     *)
(***************************************************************************)
\* lines 145-146, in hundredths
crude_moves == <<-100, 0, 100>>
prod_moves == <<-5, 0, 5>>

\* lines 149-153: the row of one pair of moves
ScenarioRow(crude, rbob, ulsd, dc, dp) ==
  LET c == Add(crude, Num(dc))
      r == Add(rbob, Num(dp))
      u == Add(ulsd, Num(dp))
  IN [crude |-> c, rbob |-> r, ulsd |-> u,
      crack |-> Sub(Times(GallonsPerBarrel, Add(Times(2, r), u)), Times(3, c))]

\* lines 147-153: the rows in the order of the two loops
Scenarios(crude, rbob, ulsd) ==
  [k \in 1..(Len(crude_moves) * Len(prod_moves)) |->
     ScenarioRow(crude, rbob, ulsd,
                 crude_moves[((k - 1) \div Len(prod_moves)) + 1],
                 prod_moves[((k - 1) % Len(prod_moves)) + 1])]

\* insert row r into the table t sorted by descending crack, after every
\* row whose crack is not smaller
RECURSIVE InsertByCrackDesc(_, _)
InsertByCrackDesc(t, r) ==
  IF t = <<>> THEN <<r>>
  ELSE IF Leq(r.crack, t[Len(t)].crack) THEN Append(t, r)
  ELSE Append(InsertByCrackDesc(SubSeq(t, 1, Len(t) - 1), r), t[Len(t)])

RECURSIVE SortValidByCrackDesc(_)
SortValidByCrackDesc(t) ==
  IF t = <<>> THEN <<>>
  ELSE InsertByCrackDesc(SortValidByCrackDesc(SubSeq(t, 1, Len(t) - 1)),
                         t[Len(t)])

\* SortByCrackDesc with ascending order
SortByCrackDesc_Ascending(t) ==
  Reverse(SortValidByCrackDesc(SelectSeq(t, LAMBDA r : ~IsNaN(r.crack))))
    \o SelectSeq(t, LAMBDA r : IsNaN(r.crack))

\* line 156: df.sort_values(["crack"], ascending=False): the rows with a
\* crack by descending crack, then the rows without one in their order
SortByCrackDesc(t) ==
  SortValidByCrackDesc(SelectSeq(t, LAMBDA r : ~IsNaN(r.crack)))
    \o SelectSeq(t, LAMBDA r : IsNaN(r.crack))

build_scenario_table(crude, rbob, ulsd) ==
  SortByCrackDesc(Scenarios(crude, rbob, ulsd))

BuildScenarioTable ==
  /\ pc = "call"
  /\ args.op = "build_scenario_table"
  /\ pc' = "returned"
  /\ ret' = build_scenario_table(args.crude, args.rbob, args.ulsd)
  /\ UNCHANGED <<args, fs, exc>>

InitScenario ==
  /\ pc = "call"
  /\ ret = <<>>
  /\ fs = EmptyFs
  /\ exc = "none"
  /\ \E c \in {NaN} \cup {Num(8000 + 50 * k) : k \in 0..MaxBase},
        r \in {NaN} \cup {Num(240 + k) : k \in 0..MaxBase},
        u \in {NaN} \cup {Num(260 + 5 * k) : k \in 0..MaxBase} :
       args = [op |-> "build_scenario_table", crude |-> c, rbob |-> r, ulsd |-> u]

NextScenario == BuildScenarioTable

SpecScenario == InitScenario /\ [][NextScenario]_vars

\* the row the claim gives for the moves dc (USD/bbl) and dp (0.01 USD/gal)
ClaimedRow(dc, dp) ==
  LET ok == args.crude[2] # 0 /\ args.rbob[2] # 0 /\ args.ulsd[2] # 0
      c == args.crude[1] + 100 * dc
      r == args.rbob[1] + dp
      u == args.ulsd[1] + dp
  IN [crude |-> IF args.crude[2] = 0 THEN NaN ELSE Num(c),
      rbob |-> IF args.rbob[2] = 0 THEN NaN ELSE Num(r),
      ulsd |-> IF args.ulsd[2] = 0 THEN NaN ELSE Num(u),
      crack |-> IF ok THEN Num((2 * r + u) * 42 - 3 * c) ELSE NaN]

\* the claimed rows in enumeration order: dc outer, dp inner
ClaimedRows ==
  <<ClaimedRow(-1, -5), ClaimedRow(-1, 0), ClaimedRow(-1, 5),
    ClaimedRow(0, -5), ClaimedRow(0, 0), ClaimedRow(0, 5),
    ClaimedRow(1, -5), ClaimedRow(1, 0), ClaimedRow(1, 5)>>

RowsWithCrack(t, v) == SelectSeq(t, LAMBDA r : r.crack = v)

\* C8: the table has exactly 9 rows, the rows of the 9 pairs of moves with
\* their cracks; no row has a strictly larger crack than its predecessor;
\* and the rows of equal crack are in enumeration order.
C8_ScenarioTable ==
  Returned =>
    /\ Len(ret) = 9
    /\ \A v \in {ClaimedRows[k].crack : k \in 1..9} \cup {ret[k].crack : k \in 1..Len(ret)} :
         RowsWithCrack(ret, v) = RowsWithCrack(ClaimedRows, v)
    /\ \A j \in 1..(Len(ret) - 1) :
         ~(/\ ret[j].crack[2] # 0
           /\ ret[j + 1].crack[2] # 0
           /\ ret[j].crack[1] * ret[j + 1].crack[2]
                < ret[j + 1].crack[1] * ret[j].crack[2])

\* crude = 80, rbob = 2.40, ulsd = 2.60: the first row is dc = -1,
\* dp = +0.05 and the last dc = +1, dp = -0.05, unlike the enumeration
C8_Witness ==
  /\ Returned
  /\ args.crude = Num(8000) /\ args.rbob = Num(240) /\ args.ulsd = Num(260)
  /\ ret[1] = ClaimedRow(-1, 5)
  /\ ret[9] = ClaimedRow(1, -5)
  /\ ret[1].crack = Num(8010)
  /\ ret # ClaimedRows

(***************************************************************************)
(* The reporters.  The content of a written file is a record of what the    *)
(* code puts into it.                                                       *)
(***************************************************************************)
\* format(x, ".1f"): x rounded to one decimal, ties to the even digit
Fmt1(x) ==
  IF IsNaN(x) THEN NaN
  ELSE LET n == 10 * x[1]
           q == n \div x[2]
           r == n - q * x[2]
           t == IF 2 * r < x[2] THEN q
                ELSE IF 2 * r > x[2] THEN q + 1
                ELSE IF q % 2 = 0 THEN q ELSE q + 1
       IN Norm(t, 10)

RECURSIVE SumOf(_)
SumOf(s) == IF s = <<>> THEN Num(0) ELSE Add(s[1], SumOf(Tail(s)))

\* Series.mean(): missing values are skipped
Mean(s) ==
  LET a == DropNa(s)
  IN IF Len(a) = 0 THEN NaN ELSE Over(SumOf(a), Len(a))

\* lines 176-185: a citation of two or more parts is a link, any other a
\* raw line
ReferenceLines(refs) ==
  [i \in 1..Len(refs) |->
     IF Len(refs[i]) >= 2 THEN <<"link", refs[i][1], refs[i][2]>>
     ELSE <<"raw", refs[i][1]>>]

\* NoteText with the heading dated at the reference date when one is given
NoteText_HeadingToday(prices, today, refs) ==
  LET df == WithCrack(prices)
      latest == df[Len(df)]
      pct == IF ~IsNaN(latest.crack)
             THEN compute_percentile(Column(df, "crack"), latest.crack)
             ELSE NaN
      mean == Mean(Column(df, "crack"))
  IN [kind |-> "note",
      heading |-> IF today # None THEN today ELSE latest.date,
      crack |-> Fmt1(Over(latest.crack, 100)),
      pct |-> Fmt1(pct),
      mean |-> Fmt1(Over(mean, 100)),
      refs |-> ReferenceLines(refs)]

\* lines 166-185: the text of the note; prices are in hundredths
NoteText(prices, today, refs) ==
  LET df == WithCrack(prices)
      latest == df[Len(df)]
      pct == IF ~IsNaN(latest.crack)
             THEN compute_percentile(Column(df, "crack"), latest.crack)
             ELSE NaN
      mean == Mean(Column(df, "crack"))
  IN [kind |-> "note",
      heading |-> latest.date,
      crack |-> Fmt1(Over(latest.crack, 100)),
      pct |-> Fmt1(pct),
      mean |-> Fmt1(Over(mean, 100)),
      refs |-> ReferenceLines(refs)]

\* text the utf-8 codec cannot encode (a lone surrogate)
Unencodable == "\\ud800"

Encodable(refs) ==
  \A i \in 1..Len(refs) : \A k \in 1..Len(refs[i]) : refs[i][k] # Unencodable

\* a file opened for writing and left without content
EmptyFile == [kind |-> "empty"]

\* the file formats the plotting library can save
Savable(path) == path[Len(path)] \in {"plot.png", "refs.pdf"}

\* write_market_note creating the directories before it looks at the table
WriteMarketNote_MkdirFirst ==
  /\ pc = "call"
  /\ args.op = "write_market_note"
  /\ ret' = ret
  /\ args' = args
  /\ LET made == MkdirParents(fs, args.path)
     IN IF ~(Required \subseteq args.columns)
        THEN pc' = "raised" /\ exc' = "ValueError" /\ fs' = made
        ELSE IF args.prices = <<>>
        THEN pc' = "raised" /\ exc' = "IndexError" /\ fs' = made
        ELSE IF args.path \in made.dirs
        THEN pc' = "raised" /\ exc' = "IsADirectoryError" /\ fs' = made
        ELSE IF ~Encodable(args.refs)
        THEN /\ pc' = "raised"
             /\ exc' = "UnicodeEncodeError"
             /\ fs' = WriteFile(made, args.path, EmptyFile)
        ELSE /\ pc' = "returned"
             /\ exc' = exc
             /\ fs' = WriteFile(made, args.path,
                                NoteText(args.prices, args.today, args.refs))

\* write_market_note, lines 165-188
WriteMarketNote ==
  /\ pc = "call"
  /\ args.op = "write_market_note"
  /\ ret' = ret
  /\ args' = args
  /\ IF ~(Required \subseteq args.columns)
     THEN \* compute_crack raises, line 167
          pc' = "raised" /\ exc' = "ValueError" /\ fs' = fs
     ELSE IF args.prices = <<>>
     THEN \* df.iloc[-1] of an empty table, line 168
          pc' = "raised" /\ exc' = "IndexError" /\ fs' = fs
     ELSE LET made == MkdirParents(fs, args.path)
          IN IF args.path \in made.dirs
             THEN \* write_text on a directory, line 188
                  pc' = "raised" /\ exc' = "IsADirectoryError" /\ fs' = made
             ELSE IF ~Encodable(args.refs)
             THEN \* write_text opens the file, then fails to encode
                  /\ pc' = "raised"
                  /\ exc' = "UnicodeEncodeError"
                  /\ fs' = WriteFile(made, args.path, EmptyFile)
             ELSE /\ pc' = "returned"
                  /\ exc' = exc
                  /\ fs' = WriteFile(made, args.path,
                                     NoteText(args.prices, args.today, args.refs))

\* write_fundamentals_pdf, lines 196-209
WriteFundamentalsPdf ==
  /\ pc = "call"
  /\ args.op = "write_fundamentals_pdf"
  /\ ret' = ret
  /\ args' = args
  /\ LET made == MkdirParents(fs, args.path)
         page == [kind |-> "pdf",
                  lines |-> [i \in 1..Len(args.refs) |-> <<i, args.refs[i]>>]]
     IN IF ~Savable(args.path)
        THEN \* savefig rejects the format, line 208
             pc' = "raised" /\ exc' = "ValueError" /\ fs' = made
        ELSE IF args.path \in made.dirs
        THEN pc' = "raised" /\ exc' = "IsADirectoryError" /\ fs' = made
        ELSE /\ pc' = "returned"
             /\ exc' = exc
             /\ fs' = WriteFile(made, args.path, page)

\* lines 104-105 and 121-127: the value the plot labels, that of the first
\* row at the latest date among the rows with a crack
PlotLabel(prices) ==
  LET df == SelectSeq(SortByDate(prices), LAMBDA r : ~IsNaN(r.crack))
  IN IF df = <<>> THEN NaN
     ELSE LET i == CHOOSE j \in 1..Len(df) :
                     /\ df[j].date = MaxDateOf(df)
                     /\ \A k \in 1..(j - 1) : df[k].date # MaxDateOf(df)
          IN Fmt1(Over(df[i].crack, 100))

\* plot_crack_time_series, lines 99-136
PlotCrackTimeSeries ==
  /\ pc = "call"
  /\ args.op = "plot_crack_time_series"
  /\ ret' = ret
  /\ args' = args
  /\ IF ~({"date", "crack"} \subseteq args.columns)
     THEN pc' = "raised" /\ exc' = "ValueError" /\ fs' = fs
     ELSE IF ~Savable(args.path)
     THEN pc' = "raised" /\ exc' = "ValueError" /\ fs' = fs
     ELSE IF ~ParentExists(fs, args.path)
     THEN pc' = "raised" /\ exc' = "FileNotFoundError" /\ fs' = fs
     ELSE IF args.path \in fs.dirs
     THEN pc' = "raised" /\ exc' = "IsADirectoryError" /\ fs' = fs
     ELSE /\ pc' = "returned"
          /\ exc' = exc
          /\ fs' = WriteFile(fs, args.path,
                             [kind |-> "png", label |-> PlotLabel(args.prices)])

\* the caller calls write_market_note again with the same table, path and
\* citations and another reference date
CallAgain ==
  /\ pc = "returned"
  /\ args.op = "write_market_note"
  /\ args.calls < MaxCalls
  /\ \E t \in (0..MaxDate) \ {args.today} :
       args' = [args EXCEPT !.today = t, !.calls = @ + 1]
  /\ pc' = "call"
  /\ UNCHANGED <<ret, fs, exc>>

(***************************************************************************)
(* Inputs of the reporters.                                                 *)
(***************************************************************************)
ReportRows ==
  [date : 1..MaxDate,
   crude : {NaN, Num(8000), Num(8100)},
   rbob : {Num(240)},
   ulsd : {Num(260)},
   volume : {Num(1)},
   crack : {Num(0)}]

RefLists ==
  {<<>>,
   <<<<"EIA", "https://www.eia.gov">>, <<"weekly status report">>>>,
   <<<<Unencodable>>>>}

\* the filesystem before the call: nothing, or the directory out
InitialFs == {EmptyFs, [EmptyFs EXCEPT !.dirs = {<<"out">>}]}

NoteArgs ==
  {[op |-> "write_market_note", columns |-> cols,
    prices |-> [i \in 1..Len(t) |-> Project(t[i], cols)],
    today |-> None, path |-> path, refs |-> refs, fs0 |-> f, calls |-> 1] :
     t \in UNION {[1..n -> ReportRows] : n \in 0..MaxTable},
     cols \in {Required, Required \cup {"crack"}, Required \ {"ulsd"}},
     path \in {<<"note.md">>, <<"out">>, <<"out", "q3", "note.md">>},
     refs \in RefLists,
     f \in InitialFs}

PlotArgs ==
  {[op |-> "plot_crack_time_series", columns |-> cols,
    prices |-> [i \in 1..Len(t) |-> Project(WithCrack(t)[i], cols)],
    today |-> 1, path |-> path, fs0 |-> f] :
     t \in UNION {[1..n -> ReportRows] : n \in 0..MaxTable},
     cols \in {Required \cup {"crack"}, {"date", "crack"}, Required},
     path \in {<<"plot.png">>, <<"out", "plot.png">>, <<"plot.xyz">>},
     f \in InitialFs}

PdfArgs ==
  {[op |-> "write_fundamentals_pdf", path |-> path, refs |-> refs, fs0 |-> f] :
     path \in {<<"refs.pdf">>, <<"out", "q3", "refs.pdf">>,
               <<"out", "q3", "refs.doc">>, <<"out">>},
     refs \in RefLists,
     f \in InitialFs}

LoadArgs ==
  {[op |-> "load_price_history", columns |-> cols,
    csv |-> [i \in 1..Len(t) |-> Project(t[i], Required)],
    today |-> today, fs0 |-> f] :
     t \in UNION {[1..n -> ReportRows] : n \in 0..1},
     cols \in {Required} \cup {Required \ {c} : c \in Required},
     today \in {None, MaxDate + 1},
     f \in InitialFs}

CrackArgs ==
  {[op |-> "compute_crack", columns |-> cols,
    prices |-> [i \in 1..Len(t) |-> Project(t[i], cols)], fs0 |-> f] :
     t \in UNION {[1..n -> ReportRows] : n \in 0..1},
     cols \in ColumnSets,
     f \in InitialFs}

InitNote ==
  /\ pc = "call"
  /\ ret = <<>>
  /\ exc = "none"
  /\ args \in NoteArgs
  /\ fs = args.fs0

NextNote == WriteMarketNote \/ CallAgain

SpecNote == InitNote /\ [][NextNote]_vars

InitFiles ==
  /\ pc = "call"
  /\ ret = <<>>
  /\ exc = "none"
  /\ args \in LoadArgs \cup CrackArgs \cup PlotArgs \cup NoteArgs \cup PdfArgs
  /\ fs = args.fs0

NextFiles ==
  \/ LoadPriceHistory
  \/ ComputeCrack
  \/ PlotCrackTimeSeries
  \/ WriteMarketNote
  \/ WriteFundamentalsPdf

SpecFiles == InitFiles /\ [][NextFiles]_vars

(***************************************************************************)
(* Properties of the reporters.                                             *)
(***************************************************************************)
Raised == pc = "raised"

\* the table of the call lacks a column the operation requires
SchemaError ==
  \/ /\ args.op \in {"load_price_history", "compute_crack", "write_market_note"}
     /\ ~(Required \subseteq args.columns)
  \/ /\ args.op = "plot_crack_time_series"
     /\ ~({"date", "crack"} \subseteq args.columns)

\* C9 as claimed: a call that fails has written no file and created
\* nothing on the filesystem.
C9_FailureLeavesNoTrace == Raised => fs = args.fs0

\* C9 as amended: a call whose table lacks a required column fails, and
\* has then written no file and created no directory; a call that returns
\* from a reporter has written its file.  (write_market_note and
\* write_fundamentals_pdf create the parent directories before the final
\* write, so a failure of that write leaves them, and for the note an
\* empty file, behind.)
C9_SchemaErrorLeavesNoTrace ==
  /\ (SchemaError /\ pc # "call") =>
       (Raised /\ exc = "ValueError" /\ fs = args.fs0)
  /\ (Returned /\ args.op \in {"plot_crack_time_series", "write_market_note",
                               "write_fundamentals_pdf"}) =>
       (args.path \in DOMAIN fs.files /\ fs.files[args.path].kind # "empty")

\* write_market_note fails on its table's missing column although the
\* directories of its path do not exist yet
C9_Witness ==
  /\ Raised
  /\ args.op = "write_market_note"
  /\ SchemaError
  /\ args.path = <<"out", "q3", "note.md">>
  /\ args.fs0 = EmptyFs
  /\ args.prices # <<>>
  /\ fs = EmptyFs

\* the crack of row i of the table of the call, in hundredths, when the
\* row has its three prices
HasCrack(i) == \A c \in PriceColSet : args.prices[i][c][2] # 0

CrackAt(i) ==
  (2 * args.prices[i].rbob[1] + args.prices[i].ulsd[1]) * 42
    - 3 * args.prices[i].crude[1]

\* the decimal t / 10 is x / y rounded to one decimal
IsRounded(v, x, y) ==
  /\ v[2] >= 1
  /\ 10 % v[2] = 0
  /\ 2 * Abs(10 * x * v[2] - 10 * v[1] * y) <= y * v[2]

\* the note reports the date, crack and percentile of the last row of the
\* table as given, ranked against all rows with a crack
NoteReportsLastRow ==
  (Returned /\ args.op = "write_market_note") =>
    LET note == fs.files[args.path]
        n == Len(args.prices)
        all == {i \in 1..n : HasCrack(i)}
        below == {i \in all : CrackAt(i) <= CrackAt(n)}
    IN /\ note.heading = args.prices[n].date
       /\ IF HasCrack(n)
          THEN /\ IsRounded(note.crack, CrackAt(n), 100)
               /\ IsRounded(note.pct, 100 * Cardinality(below), Cardinality(all))
               /\ n \in below
          ELSE note.crack = NaN /\ note.pct = NaN

\* a later call with another reference date writes the same note
NoteIgnoresToday ==
  (/\ pc = "call"
   /\ pc' = "returned"
   /\ args.op = "write_market_note"
   /\ args.calls >= 2)
  => /\ args.path \in DOMAIN fs.files
     /\ fs'.files[args.path] = fs.files[args.path]

\* C10: the note written by write_market_note does not depend on today: two
\* calls with the same table, path and citations and different today write
\* the same note, which reports the date, crack and percentile of the
\* positionally last row, ranked against all rows including that row.
C10_NoteIndependentOfToday == [][NoteIgnoresToday]_vars /\ []NoteReportsLastRow

\* the second call, with a reference date that is not the date of the last
\* row, on a table that is not sorted and whose last row is not the highest
C10_Witness ==
  /\ Returned
  /\ args.op = "write_market_note"
  /\ args.calls = 2
  /\ Len(args.prices) = 2
  /\ args.prices[2].date < args.prices[1].date
  /\ args.today = args.prices[1].date
  /\ fs.files[args.path].heading = args.prices[2].date
  /\ fs.files[args.path].pct = Num(50)
  /\ fs.files[args.path].crack = Norm(678, 10)

====
